---------------------------- MODULE Spec2Model ----------------------------
(***************************************************************************)
(* Model of conda_package_gatherer.py: the offline conda/pip bundle        *)
(* builder.  The control thread of generate_offline_install_package is a  *)
(* program counter `pc`; the ThreadPoolExecutor of fetch_packages is a     *)
(* set of download tasks, each with its own position.  External           *)
(* collaborators (the conda solver, `conda info`, requests.get, the pip    *)
(* subprocess, the file system found at start) are nondeterministic.       *)
(***************************************************************************)
EXTENDS Integers, Sequences, FiniteSets, TLC

\* ------------------------------------------------------------- bounds
NumPkgs == 3        \* packages the solver can choose from
MaxPipLen == 2      \* longest pip specifier list passed in
MaxDescLen == 2     \* longest `dependencies` list of a descriptor (pipeline)
MaxDeps == 3        \* longest `dependencies` list (normalizer alone)

\* ThreadPoolExecutor(max_workers=10)
max_workers == 10

\* ------------------------------------------------------ python values
\* Optional[list]: None, or a list.
PyNone == [none |-> TRUE, list |-> <<>>]
PyList(l) == [none |-> FALSE, list |-> l]
\* Optional[str]: None, or a string.
StrNone == [none |-> TRUE, s |-> ""]
PyStr(x) == [none |-> FALSE, s |-> x]

\* bool(x) of an Optional[list]: None and [] are falsy.
Truthy(v) == ~v.none /\ Len(v.list) > 0

\* One entry of a descriptor's `dependencies` list: a bare string, or a
\* mapping.  A mapping is its key set and the value under 'pip' (the other
\* key, 'name', has one value).  A mapping without 'pip' has pip = PyNone,
\* so record equality is Python's == on these entries.
Str(x) == [isdict |-> FALSE, str |-> x, keys |-> {}, pip |-> PyNone]
Dict(ks, pipval) ==
    [isdict |-> TRUE, str |-> "", keys |-> ks,
     pip |-> IF "pip" \in ks THEN pipval ELSE PyNone]

\* p.get('pip')
DictGetPip(p) == IF "pip" \in p.keys THEN p.pip ELSE PyNone
\* p after p.pop('pip')
DictPopPip(p) == Dict(p.keys \ {"pip"}, PyNone)

\* pip specifiers are strings of characters; none holds a line separator.
PipSpecs == { <<"f">>, <<"r", "q">> }
PipLists == UNION { [1..n -> PipSpecs] : n \in 0..MaxPipLen }

\* ------------------------------------------------- sequence helpers
RECURSIVE IndexOf(_, _, _)
\* list.index from position i on; 0 when absent
IndexOf(s, x, i) ==
    IF i > Len(s) THEN 0
    ELSE IF s[i] = x THEN i ELSE IndexOf(s, x, i + 1)

RemoveAt(s, i) == SubSeq(s, 1, i - 1) \o SubSeq(s, i + 1, Len(s))

\* list.remove(x): drops the first element equal to x
ListRemove(s, x) ==
    LET i == IndexOf(s, x, 1) IN IF i = 0 THEN s ELSE RemoveAt(s, i)

RECURSIVE LastPipIndex(_, _)
\* the reverse scan of lines 92-93: the last entry that is a mapping whose
\* 'pip' value is not None; 0 when there is none
LastPipIndex(deps, i) ==
    IF i = 0 THEN 0
    ELSE IF deps[i].isdict /\ ~DictGetPip(deps[i]).none THEN i
    ELSE LastPipIndex(deps, i - 1)

\* lines 90-97: the descriptor branch of the input normalizer.  p.pop
\* mutates the entry inside the list, then packages.remove(p) drops the
\* first entry equal to the mutated p.
NormalizeDescriptor(deps) ==
    LET i == LastPipIndex(deps, Len(deps)) IN
    IF i = 0
    THEN [conda |-> PyList(deps), pip |-> PyNone]
    ELSE LET popped == DictPopPip(deps[i])
             mutated == [deps EXCEPT ![i] = popped]
         IN [conda |-> PyList(ListRemove(mutated, popped)),
             pip |-> deps[i].pip]

\* lines 99-100: packages.get('conda'), packages.get('pip')
NormalizeMapping(m) ==
    [conda |-> IF "conda" \in m.keys THEN m.conda ELSE PyNone,
     pip |-> IF "pip" \in m.keys THEN m.pip ELSE PyNone]

\* lines 86-100
Normalize(p) ==
    IF p.kind = "path" THEN NormalizeDescriptor(p.deps) ELSE NormalizeMapping(p)


\* ------------------------------------------------ external collaborators
\* File names of the packages the solver can return; one URL per package.
PkgFiles == << "numpy-1.0.tar.bz2", "mkl-2.0.tar.bz2", "openssl-3.0.tar.bz2",
               "zlib-1.2.tar.bz2", "libffi-3.4.tar.bz2" >>
Pkg(i) == [url |-> "https://x/" \o PkgFiles[i], fn |-> PkgFiles[i]]

RECURSIVE SortedSeq(_)
SortedSeq(S) ==
    IF S = {} THEN <<>>
    ELSE LET m == CHOOSE x \in S : \A y \in S : x <= y
         IN <<m>> \o SortedSeq(S \ {m})

\* to_be_installed.item_list of a solver result: distinct package records
ItemLists == { [k \in 1..Len(SortedSeq(S)) |-> Pkg(SortedSeq(S)[k])] :
               S \in SUBSET (1..NumPkgs) }

\* `conda info --json`: active_prefix is JSON null when no environment is
\* active, else a JSON string; conda_prefix is always a string.
JsonNull == [json |-> "null", text |-> ""]
JsonString(x) == [json |-> "string", text |-> x]
CondaInfos == { [active_prefix |-> a, conda_prefix |-> JsonString("/opt/conda")] :
                a \in { JsonNull, JsonString("/opt/conda/envs/work") } }

\* json.loads of one value: null becomes None, a string becomes a str
json_loads(j) == IF j.json = "null" THEN StrNone ELSE PyStr(j.text)

\* line 62: info['active_prefix'] == 'null' compares the loaded value with
\* the str 'null'; None is not equal to any str.
SolverPrefix(info) ==
    LET active == json_loads(info.active_prefix)
        base == json_loads(info.conda_prefix)
    IN IF active = PyStr("null") THEN base ELSE active

\* --------------------------------------------------- pure helpers
RECURSIVE DictPut(_, _, _, _)
\* d[k] = v on an insertion-ordered dict held as a sequence of items
DictPut(d, k, v, i) ==
    IF i > Len(d) THEN Append(d, [url |-> k, fn |-> v])
    ELSE IF d[i].url = k THEN [d EXCEPT ![i] = [url |-> k, fn |-> v]]
    ELSE DictPut(d, k, v, i + 1)

RECURSIVE PackagesToFetch(_)
\* line 108: {pkg.url: pkg.fn for pkg in to_be_installed.item_list}
PackagesToFetch(items) ==
    IF items = <<>> THEN <<>>
    ELSE LET n == Len(items)
             d == PackagesToFetch(SubSeq(items, 1, n - 1))
         IN DictPut(d, items[n].url, items[n].fn, 1)

\* line 109: [f'conda/{v}' for v in packages_to_fetch.values()]
CondaPackageListing(d) == [k \in 1..Len(d) |-> "conda/" \o d[k].fn]

RECURSIVE StrJoin(_, _)
\* sep.join(l)
StrJoin(l, sep) ==
    IF l = <<>> THEN ""
    ELSE IF Len(l) = 1 THEN l[1]
    ELSE l[1] \o sep \o StrJoin(Tail(l), sep)

RECURSIVE Flatten(_)
\* lines 118-119: the characters rq.write(p) puts in the file, p by p
Flatten(l) == IF l = <<>> THEN <<>> ELSE l[1] \o Flatten(Tail(l))

RECURSIVE SplitLines(_, _)
\* the lines of a text file read back: split at each line separator, the
\* separator dropped; `cur` is the line being read
SplitLines(chars, cur) ==
    IF chars = <<>> THEN (IF cur = <<>> THEN <<>> ELSE <<cur>>)
    ELSE IF chars[1] = "\n" THEN <<cur>> \o SplitLines(Tail(chars), <<>>)
    ELSE SplitLines(Tail(chars), Append(cur, chars[1]))

\* lines 120-129: the script family of the OS the bundle is built on
ScriptStyle(os_name) ==
    IF os_name = "nt"
    THEN [update_file |-> "update.bat", comment_mark |-> "::",
          file_mark |-> "", command_prepend |-> "call "]
    ELSE [update_file |-> "update.sh", comment_mark |-> "#",
          file_mark |-> "#!/bin/bash\n", command_prepend |-> ""]

CondaComment(st) == st.comment_mark \o " install conda packages\n"
CondaCommand(st, listing) ==
    st.command_prepend \o "conda install " \o StrJoin(listing, " ") \o " --offline\n"
PipComment(st) == st.comment_mark \o " install pip packages\n"
PipCommand(st) ==
    st.command_prepend
      \o "pip install --no-index --find-links=pip/downloaded -r pip/requirements.txt\n"

\* line 135: whether the conda install section is written
WritesCondaSection(listing) == ~listing.none
\* the pip install section written whatever the pip list is
WritesPipSectionAlways(pipdeps) == TRUE

\* line 138: whether the pip install section is written
WritesPipSection(pipdeps) == ~pipdeps.none

\* lines 130-140: the up.write calls, in order
ScriptText(st, preamble, listing, pipdeps) ==
    <<st.file_mark>>
    \o (IF ~preamble.none THEN <<preamble.s, "\n">> ELSE <<>>)
    \o (IF WritesCondaSection(listing)
        THEN <<CondaComment(st), CondaCommand(st, listing.list)>> ELSE <<>>)
    \o (IF WritesPipSection(pipdeps)
        THEN <<PipComment(st), PipCommand(st)>> ELSE <<>>)

\* ------------------------------------------------------------ inputs
CondaVals == { PyNone, PyList(<<>>), PyList(<<Str("numpy")>>) }
PipVals == { PyNone } \cup { PyList(l) : l \in PipLists }

\* a mapping with optional keys 'conda' and 'pip'
MappingInputs ==
    { [kind |-> "mapping", keys |-> ks, deps |-> <<>>,
       conda |-> IF "conda" \in ks THEN c ELSE PyNone,
       pip |-> IF "pip" \in ks THEN p ELSE PyNone] :
      ks \in SUBSET {"conda", "pip"}, c \in CondaVals, p \in PipVals }

IsPipMapping(e) == e.isdict /\ "pip" \in e.keys
NumMappings(deps) == Cardinality({ i \in 1..Len(deps) : deps[i].isdict })

\* descriptors as the format documents them: bare strings and at most one
\* embedded {pip: [...]} mapping
DescEntries ==
    { Str("numpy"), Dict({"pip"}, PyList(<<>>)), Dict({"pip"}, PyList(<< <<"f">> >>)),
      Dict({"pip"}, PyList(<< <<"f">>, <<"r", "q">> >>)) }
DescLists ==
    { d \in UNION { [1..n -> DescEntries] : n \in 0..MaxDescLen } : NumMappings(d) <= 1 }
PathInput(d) ==
    [kind |-> "path", keys |-> {}, deps |-> d, conda |-> PyNone, pip |-> PyNone]
DescriptorInputs == { PathInput(d) : d \in DescLists }

\* any YAML list of strings and mappings, for the normalizer alone
NormEntries ==
    { Str("numpy"), Str("scipy"), Dict({}, PyNone), Dict({"name"}, PyNone),
      Dict({"pip"}, PyNone), Dict({"pip"}, PyList(<< <<"f">> >>)),
      Dict({"pip", "name"}, PyList(<< <<"r", "q">> >>)) }
NormLists == UNION { [1..n -> NormEntries] : n \in 0..MaxDeps }

\* the output directories found at start: none, an empty install
\* directory, or the tree of an earlier run
StartDirs == { {}, {"root"}, {"root", "conda", "pip"} }

\* ------------------------------------------------------------- state
VARIABLES
    input,                  \* the `packages` argument as passed in
    exist_ok,               \* the exist_ok argument
    pc,                     \* position of the control thread
    error,                  \* the exception that ended the call, or "none"
    conda_dependencies,     \* Optional list, after normalization
    pip_dependencies,       \* Optional list, after normalization
    dirs,                   \* directories that exist under package_location
    made,                   \* directories os.makedirs was asked for and gave
    solver,                 \* the Solver construction: called, prefix, info
    to_be_installed,        \* item_list of the solver's packages to add
    packages_to_fetch,      \* insertion-ordered dict url -> fn
    conda_package_listing,  \* Optional list of 'conda/<fn>'
    submitted,              \* tasks handed to the executor so far
    task,                   \* position of each download task
    conda_files,            \* file names written under conda/
    pip_exit,               \* exit status of `pip download`; -1 before it ran
    requirements,           \* pip/requirements.txt
    script,                 \* the replay script
    archive                 \* whether <install_path>.zip was made

vars == << input, exist_ok, pc, error, conda_dependencies, pip_dependencies,
           dirs, made, solver, to_be_installed, packages_to_fetch,
           conda_package_listing, submitted, task, conda_files, pip_exit, requirements, script,
           archive >>

NoSolver == [called |-> FALSE, prefix |-> StrNone, active |-> StrNone,
             base |-> StrNone]
NoFile == [exists |-> FALSE, content |-> <<>>]
NoScript == [exists |-> FALSE, name |-> "", text |-> <<>>,
             style |-> ScriptStyle("posix")]

InitWith(inputs) ==
    /\ input \in inputs
    /\ exist_ok \in BOOLEAN
    /\ dirs \in StartDirs
    /\ pc = "normalize"
    /\ error = "none"
    /\ conda_dependencies = PyNone
    /\ pip_dependencies = PyNone
    /\ made = {}
    /\ solver = NoSolver
    /\ to_be_installed = <<>>
    /\ packages_to_fetch = <<>>
    /\ conda_package_listing = PyNone
    /\ submitted = 0
    /\ task = <<>>
    /\ conda_files = {}
    /\ pip_exit = -1
    /\ requirements = NoFile
    /\ script = NoScript
    /\ archive = FALSE

Init == InitWith(MappingInputs \cup DescriptorInputs)

\* ------------------------------------------------- control thread
\* os.makedirs(d, exist_ok=exist_ok): FileExistsError when d exists and
\* exist_ok is false; otherwise d exists afterwards.
Makedirs(d, next) ==
    IF d \in dirs /\ ~exist_ok
    THEN /\ pc' = "raised"
         /\ error' = "FileExistsError"
         /\ UNCHANGED << dirs, made >>
    ELSE /\ pc' = next
         /\ dirs' = dirs \cup {d}
         /\ made' = made \cup {d}
         /\ UNCHANGED error

\* lines 86-100
NormalizeInput ==
    /\ pc = "normalize"
    /\ conda_dependencies' = Normalize(input).conda
    /\ pip_dependencies' = Normalize(input).pip
    /\ pc' = "mkroot"
    /\ UNCHANGED << input, to_be_installed, exist_ok, error, dirs, made, solver, packages_to_fetch,
                    conda_package_listing, submitted, task, conda_files,
                    pip_exit, requirements, script, archive >>

\* lines 101-103
MakeInstallDir ==
    /\ pc = "mkroot"
    /\ Makedirs("root", "conda")
    /\ UNCHANGED << input, to_be_installed, exist_ok, conda_dependencies, pip_dependencies,
                    solver, packages_to_fetch, conda_package_listing,
                    submitted, task, conda_files, pip_exit, requirements,
                    script, archive >>

\* line 104: the guard of the conda phase
CondaPhaseRuns(deps) == ~deps.none

\* line 104, false branch
SkipConda ==
    /\ pc = "conda"
    /\ ~CondaPhaseRuns(conda_dependencies)
    /\ pc' = "pip"
    /\ UNCHANGED << input, to_be_installed, exist_ok, error, conda_dependencies,
                    pip_dependencies, dirs, made, solver, packages_to_fetch,
                    conda_package_listing, submitted, task, conda_files,
                    pip_exit, requirements, script, archive >>

\* lines 104-106
MakeCondaDir ==
    /\ pc = "conda"
    /\ CondaPhaseRuns(conda_dependencies)
    /\ Makedirs("conda", "solve")
    /\ UNCHANGED << input, to_be_installed, exist_ok, conda_dependencies, pip_dependencies,
                    solver, packages_to_fetch, conda_package_listing,
                    submitted, task, conda_files, pip_exit, requirements,
                    script, archive >>

\* lines 107-110 with solve_for_packages (52-64): the solver is built with
\* the prefix of line 62 and returns some set of packages to add
Solve ==
    /\ pc = "solve"
    /\ \E info \in CondaInfos, items \in ItemLists :
         /\ solver' = [called |-> TRUE, prefix |-> SolverPrefix(info),
                       active |-> json_loads(info.active_prefix),
                       base |-> json_loads(info.conda_prefix)]
         /\ to_be_installed' = items
         /\ packages_to_fetch' = PackagesToFetch(items)
         /\ conda_package_listing' =
                PyList(CondaPackageListing(PackagesToFetch(items)))
         /\ task' = [k \in 1..Len(PackagesToFetch(items)) |-> "unsubmitted"]
    /\ pc' = "fetch"
    /\ UNCHANGED << input, exist_ok, error, conda_dependencies,
                    pip_dependencies, dirs, made, submitted, conda_files,
                    pip_exit, requirements, script, archive >>

\* lines 60-64: the solver raises (unsatisfiable, unknown package, ...)
SolveFails ==
    /\ pc = "solve"
    /\ \E info \in CondaInfos :
         solver' = [called |-> TRUE, prefix |-> SolverPrefix(info),
                    active |-> json_loads(info.active_prefix),
                    base |-> json_loads(info.conda_prefix)]
    /\ pc' = "raised"
    /\ error' = "SolverError"
    /\ UNCHANGED << input, to_be_installed, exist_ok, conda_dependencies, pip_dependencies,
                    dirs, made, packages_to_fetch, conda_package_listing,
                    submitted, task, conda_files, pip_exit, requirements,
                    script, archive >>

\* ------------------------------------------------ fetch_packages
Tasks == 1..Len(task)
Running == { t \in Tasks : task[t] \in {"fetching", "writing"} }
Finished(t) == task[t] \in {"done", "failed"}
AllFinished == \A t \in Tasks : Finished(t)

\* lines 48-49: executor.submit of the next item of urls.items()
Submit ==
    /\ pc = "fetch"
    /\ submitted < Len(packages_to_fetch)
    /\ submitted' = submitted + 1
    /\ task' = [task EXCEPT ![submitted + 1] = "queued"]
    /\ UNCHANGED << input, to_be_installed, exist_ok, pc, error, conda_dependencies,
                    pip_dependencies, dirs, made, solver, packages_to_fetch,
                    conda_package_listing, conda_files, pip_exit,
                    requirements, script, archive >>

\* a pool thread takes the oldest queued work item (at most max_workers
\* threads exist) and enters download_and_save_package, line 30
WorkerStart(t) ==
    /\ task[t] = "queued"
    /\ \A u \in Tasks : u < t => task[u] # "queued"
    /\ Cardinality(Running) < max_workers
    /\ task' = [task EXCEPT ![t] = "fetching"]
    /\ UNCHANGED << input, to_be_installed, exist_ok, pc, error, conda_dependencies,
                    pip_dependencies, dirs, made, solver, packages_to_fetch,
                    conda_package_listing, submitted, conda_files, pip_exit,
                    requirements, script, archive >>

\* lines 31-32: requests.get returns a response
WorkerGet(t) ==
    /\ task[t] = "fetching"
    /\ task' = [task EXCEPT ![t] = "writing"]
    /\ UNCHANGED << input, to_be_installed, exist_ok, pc, error, conda_dependencies,
                    pip_dependencies, dirs, made, solver, packages_to_fetch,
                    conda_package_listing, submitted, conda_files, pip_exit,
                    requirements, script, archive >>

\* line 31: requests.get raises; the exception is stored in the task's
\* future, which nothing reads, and the worker goes on to the next item
WorkerGetFails(t) ==
    /\ task[t] = "fetching"
    /\ task' = [task EXCEPT ![t] = "failed"]
    /\ UNCHANGED << input, to_be_installed, exist_ok, pc, error, conda_dependencies,
                    pip_dependencies, dirs, made, solver, packages_to_fetch,
                    conda_package_listing, submitted, conda_files, pip_exit,
                    requirements, script, archive >>

\* lines 33-35: the body is written to conda/<package_name>
WorkerSave(t) ==
    /\ task[t] = "writing"
    /\ task' = [task EXCEPT ![t] = "done"]
    /\ conda_files' = conda_files \cup { packages_to_fetch[t].fn }
    /\ UNCHANGED << input, to_be_installed, exist_ok, pc, error, conda_dependencies,
                    pip_dependencies, dirs, made, solver, packages_to_fetch,
                    conda_package_listing, submitted, pip_exit, requirements,
                    script, archive >>

\* the executor shut down without waiting for its tasks
ShutdownNoWait ==
    /\ pc = "fetch"
    /\ submitted = Len(packages_to_fetch)
    /\ pc' = "pip"
    /\ UNCHANGED << input, to_be_installed, exist_ok, error, conda_dependencies,
                    pip_dependencies, dirs, made, solver, packages_to_fetch,
                    conda_package_listing, submitted, task, conda_files,
                    pip_exit, requirements, script, archive >>

\* line 47, leaving the with block: shutdown(wait=True) returns when every
\* submitted task has ended; no future's result is read, so it never raises
Shutdown ==
    /\ pc = "fetch"
    /\ submitted = Len(packages_to_fetch)
    /\ AllFinished
    /\ pc' = "pip"
    /\ UNCHANGED << input, to_be_installed, exist_ok, error, conda_dependencies,
                    pip_dependencies, dirs, made, solver, packages_to_fetch,
                    conda_package_listing, submitted, task, conda_files,
                    pip_exit, requirements, script, archive >>

\* -------------------------------------------------------- pip phase
\* line 112: the guard of the pip phase
PipPhaseRuns(deps) == Truthy(deps)

\* line 112, false branch
SkipPip ==
    /\ pc = "pip"
    /\ ~PipPhaseRuns(pip_dependencies)
    /\ pc' = "script"
    /\ UNCHANGED << input, to_be_installed, exist_ok, error, conda_dependencies,
                    pip_dependencies, dirs, made, solver, packages_to_fetch,
                    conda_package_listing, submitted, task, conda_files,
                    pip_exit, requirements, script, archive >>

\* lines 112-114
MakePipDir ==
    /\ pc = "pip"
    /\ PipPhaseRuns(pip_dependencies)
    /\ Makedirs("pip", "pipdl")
    /\ UNCHANGED << input, to_be_installed, exist_ok, conda_dependencies, pip_dependencies,
                    solver, packages_to_fetch, conda_package_listing,
                    submitted, task, conda_files, pip_exit, requirements,
                    script, archive >>

\* the exit status of `pip download` went unchecked (subprocess.call)
PipDownloadUnchecked(code) ==
    /\ pc = "pipdl"
    /\ pip_exit' = code
    /\ pc' = "reqs"
    /\ dirs' = IF code = 0 THEN dirs \cup {"pip/downloaded"} ELSE dirs
    /\ UNCHANGED << input, to_be_installed, exist_ok, error, conda_dependencies,
                    pip_dependencies, made, solver, packages_to_fetch,
                    conda_package_listing, submitted, task, conda_files,
                    requirements, script, archive >>

\* lines 115-116: subprocess.check_call; a non-zero exit status raises
\* CalledProcessError, exit 0 leaves the downloads in pip/downloaded
PipDownload(code) ==
    /\ pc = "pipdl"
    /\ pip_exit' = code
    /\ IF code = 0
       THEN /\ pc' = "reqs"
            /\ dirs' = dirs \cup {"pip/downloaded"}
            /\ UNCHANGED error
       ELSE /\ pc' = "raised"
            /\ error' = "CalledProcessError"
            /\ UNCHANGED dirs
    /\ UNCHANGED << input, to_be_installed, exist_ok, conda_dependencies, pip_dependencies,
                    made, solver, packages_to_fetch, conda_package_listing,
                    submitted, task, conda_files, requirements, script,
                    archive >>

\* lines 117-119
WriteRequirements ==
    /\ pc = "reqs"
    /\ requirements' = [exists |-> TRUE, content |-> Flatten(pip_dependencies.list)]
    /\ pc' = "script"
    /\ UNCHANGED << input, to_be_installed, exist_ok, error, conda_dependencies,
                    pip_dependencies, dirs, made, solver, packages_to_fetch,
                    conda_package_listing, submitted, task, conda_files,
                    pip_exit, script, archive >>

\* ----------------------------------------------------- bundle writer
Preambles == { StrNone, PyStr("conda activate base") }

\* lines 120-140
WriteScript ==
    /\ pc = "script"
    /\ \E os_name \in {"nt", "posix"}, script_preamble \in Preambles :
         script' = [exists |-> TRUE,
                    name |-> ScriptStyle(os_name).update_file,
                    style |-> ScriptStyle(os_name),
                    text |-> ScriptText(ScriptStyle(os_name), script_preamble,
                                        conda_package_listing, pip_dependencies)]
    /\ pc' = "compress"
    /\ UNCHANGED << input, to_be_installed, exist_ok, error, conda_dependencies,
                    pip_dependencies, dirs, made, solver, packages_to_fetch,
                    conda_package_listing, submitted, task, conda_files,
                    pip_exit, requirements, archive >>

\* lines 141-142, and the return
Finish ==
    /\ pc = "compress"
    /\ \E compress \in BOOLEAN : archive' = compress
    /\ pc' = "done"
    /\ UNCHANGED << input, to_be_installed, exist_ok, error, conda_dependencies,
                    pip_dependencies, dirs, made, solver, packages_to_fetch,
                    conda_package_listing, submitted, task, conda_files,
                    pip_exit, requirements, script >>

Next ==
    \/ NormalizeInput
    \/ MakeInstallDir
    \/ SkipConda
    \/ MakeCondaDir
    \/ Solve
    \/ SolveFails
    \/ Submit
    \/ \E t \in Tasks : WorkerStart(t)
    \/ \E t \in Tasks : WorkerGet(t)
    \/ \E t \in Tasks : WorkerGetFails(t)
    \/ \E t \in Tasks : WorkerSave(t)
    \/ Shutdown
    \/ SkipPip
    \/ MakePipDir
    \/ \E code \in {0, 1} : PipDownload(code)
    \/ WriteRequirements
    \/ WriteScript
    \/ Finish

Spec == Init /\ [][Next]_vars

\* The input normalizer alone, on every list of strings and mappings.
InitNorm == InitWith({ PathInput(d) : d \in NormLists })
NextNorm == NormalizeInput
SpecNorm == InitNorm /\ [][NextNorm]_vars

\* ------------------------------------------------------ properties
AfterFetch == {"pip", "pipdl", "reqs", "script", "compress", "done"}

HasCondaSection ==
    script.exists /\ \E i \in 1..Len(script.text) : script.text[i] = CondaComment(script.style)
HasPipSection ==
    script.exists /\ \E i \in 1..Len(script.text) : script.text[i] = PipCommand(script.style)

\* the input holds no pip mapping
NoPipInput ==
    IF input.kind = "path"
    THEN \A i \in 1..Len(input.deps) : ~IsPipMapping(input.deps[i])
    ELSE "pip" \notin input.keys \/ input.pip.none

\* the input's conda specifier list is empty or absent
NoCondaInput ==
    IF input.kind = "path"
    THEN \A i \in 1..Len(input.deps) : input.deps[i].isdict
    ELSE "conda" \notin input.keys \/ input.conda.none \/ input.conda.list = <<>>

\* C1: once a dispatched download has failed with an exception, the call
\* does not go on to the pip phase, the replay script or a normal return:
\* it is still inside fetch_packages or has raised.
C1_FailedDownloadIsFatal ==
    (\E t \in Tasks : task[t] = "failed") => pc \in {"fetch", "raised"}

\* C2: fetch_packages is a barrier.  Whenever the control thread is past
\* fetch_packages every item was submitted and every task has ended; the pip
\* download never runs beside a download; the replay script exists only
\* when the conda fetch phase and the pip phase (if any) have finished.
C2_FetchBarrier ==
    /\ pc \in AfterFetch =>
         submitted = Len(packages_to_fetch) /\ AllFinished
    /\ (pip_exit # -1 \/ "pip" \in made \/ requirements.exists) => AllFinished
    /\ script.exists =>
         /\ AllFinished
         /\ submitted = Len(packages_to_fetch)
         /\ PipPhaseRuns(pip_dependencies) => pip_exit = 0 /\ requirements.exists

\* C2 witness: a finished run whose two or more downloads completed, whose
\* pip phase ran and whose script was written.
C2_Witness ==
    /\ pc = "done"
    /\ Len(task) >= 2
    /\ \A t \in Tasks : task[t] = "done"
    /\ pip_exit = 0
    /\ script.exists

\* C3: for a descriptor holding a pip mapping, the normalizer yields that
\* mapping's list as pip dependencies and the original list without that
\* one entry, the others in place, as conda dependencies.
C3_PipMappingExtracted ==
    (pc = "mkroot" /\ input.kind = "path"
       /\ LastPipIndex(input.deps, Len(input.deps)) # 0) =>
        LET i == LastPipIndex(input.deps, Len(input.deps)) IN
        /\ pip_dependencies = input.deps[i].pip
        /\ conda_dependencies = PyList(RemoveAt(input.deps, i))

\* C4: after a successful run with a non-empty pip list, requirements.txt
\* read back line by line is that list.
C4_RequirementsRoundTrip ==
    (pc = "done" /\ Truthy(pip_dependencies)) =>
        /\ requirements.exists
        /\ SplitLines(requirements.content, <<>>) = pip_dependencies.list

\* C5: with an empty or absent conda list the solver is never invoked, no
\* conda/ directory is made, no download is dispatched and the script has
\* no conda install section.
C5_EmptyCondaSkipped ==
    NoCondaInput =>
        /\ ~solver.called
        /\ "conda" \notin made
        /\ submitted = 0
        /\ ~HasCondaSection

\* C6: with no pip mapping in the input, pip dependencies are absent, pip
\* download is never invoked, neither pip/ nor pip/requirements.txt is
\* made, and the script has no pip section; with one resolved package the
\* script ends with the conda section whose install line names
\* conda/<file name> alone.
C6_NoPipSkipsPip ==
    NoPipInput =>
        /\ pip_dependencies.none
        /\ pip_exit = -1
        /\ "pip" \notin made
        /\ "pip/downloaded" \notin dirs
        /\ ~requirements.exists
        /\ ~HasPipSection
        /\ \A i \in 1..Len(script.text) : script.text[i] # PipComment(script.style)
        /\ (script.exists /\ Len(to_be_installed) = 1) =>
             LET n == Len(script.text) IN
             /\ n \in {3, 5}
             /\ script.text[n - 1] = script.style.comment_mark \o " install conda packages\n"
             /\ script.text[n] = script.style.command_prepend \o "conda install conda/"
                                   \o to_be_installed[1].fn \o " --offline\n"

\* C6 witness: Scenario A finished: no pip mapping, one resolved package,
\* its file on disk and the script written.
C6_Witness ==
    /\ NoPipInput
    /\ pc = "done"
    /\ Len(to_be_installed) = 1
    /\ conda_files = { to_be_installed[1].fn }
    /\ script.exists

\* C7: the packages-to-fetch mapping holds exactly one entry per resolved
\* package, url -> file name, and once fetch_packages has returned a file
\* conda/<file_name> exists for each resolved package.
C7_EveryPackageFetched ==
    /\ Len(packages_to_fetch) = Len(to_be_installed)
    /\ \A k \in 1..Len(to_be_installed) :
         Cardinality({ j \in 1..Len(packages_to_fetch) :
                         packages_to_fetch[j].url = to_be_installed[k].url }) = 1
         /\ \E j \in 1..Len(packages_to_fetch) :
              packages_to_fetch[j] = [url |-> to_be_installed[k].url,
                                      fn |-> to_be_installed[k].fn]
    /\ pc \in AfterFetch =>
         \A k \in 1..Len(to_be_installed) : to_be_installed[k].fn \in conda_files

\* C8: a non-zero exit of pip download ends the call with an error; no
\* requirements.txt, no replay script and no archive are written, and the
\* directories and conda files made before stay.
C8_PipFailureAborts ==
    (pip_exit # -1 /\ pip_exit # 0) =>
        /\ pc = "raised"
        /\ error = "CalledProcessError"
        /\ ~requirements.exists
        /\ ~script.exists
        /\ ~archive
        /\ made \subseteq dirs
        /\ {"root", "pip"} \subseteq made
        /\ CondaPhaseRuns(conda_dependencies) => "conda" \in made
        /\ \A t \in Tasks : task[t] = "done" => packages_to_fetch[t].fn \in conda_files

\* C8 witness: pip download failed after conda files were fetched.
C8_Witness ==
    /\ pip_exit = 1
    /\ pc = "raised"
    /\ conda_files # {}
    /\ "conda" \in dirs

\* C9: the solver is built with the active prefix when an environment is
\* active and with conda_prefix when active_prefix is null; never with an
\* absent prefix.
C9_SolverPrefix ==
    solver.called =>
        /\ ~solver.prefix.none
        /\ solver.prefix = (IF solver.active.none THEN solver.base ELSE solver.active)

\* C10: after a successful run the script holds the pip install section
\* exactly when the pip phase ran (pip/ made and requirements.txt written),
\* and the conda install section exactly when conda/ was made.
C10_ScriptMatchesBundle ==
    pc = "done" =>
        /\ HasPipSection <=> ("pip" \in made /\ requirements.exists)
        /\ HasCondaSection <=> "conda" \in made

=============================================================================
